---- MODULE Spec2Model ----
(***************************************************************************)
(* A model of the two notebooks of the repository:                         *)
(*   - "Project 3_Rating_Prediction/NCF method.ipynb": the vocabulary      *)
(*     cells, the index lookup cells, rmse, build_ncf_model, the training, *)
(*     evaluation and save cells and the parameter sweep;                  *)
(*   - "Project 1_Sentiment_Analysis/inference.ipynb": load_data,          *)
(*     SAM.predict and the two prediction loops.                           *)
(* Each part has its own specification over the shared variables; the      *)
(* variables of the other parts stay at their initial values.              *)
(***************************************************************************)
EXTENDS Integers, Sequences, FiniteSets, TLC

VARIABLES
    \* ---- rating notebook: tables, vocabularies, index arrays
    pcR,            \* the last cell of the rating notebook that has run
    tr_df, val_df, test_df,
    user_vocab, business_vocab, n_users, n_items,
    tr_users, tr_items, val_users, val_items, test_users, test_items,
    \* ---- rating notebook: ratings, the current model, its predictions
    tr_ratings, val_ratings, model, ypred,  \* ypred: the notebook's y_pred
    \* ---- rating notebook: the parameter sweep cell
    pcW, sw_e, sw_d, sw_i, sw_files,
    \* ---- build_ncf_model(n_users, n_items, embed_size, dropout, output_layer)
    pcB, b_args, b_result,
    \* ---- rmse(pred, actual)
    pcM, rm_pred, rm_actual, rm_result,
    \* ---- load_data(split_name, columns, folder)
    pcL, fs_readable, fs_columns, ld_columns, ld_result, ld_reads, ld_printed,
    \* ---- SAM.predict and the prediction loops
    pcS, logitsOf, pr_text, pr_label,
    valid_df, stest_df, val_data, test_data, loop_i

trainVars == <<tr_ratings, val_ratings, model, ypred>>
sweepVars == <<pcW, sw_e, sw_d, sw_i, sw_files>>
buildVars == <<pcB, b_args, b_result>>
ratingVars == <<pcR, tr_df, val_df, test_df, user_vocab, business_vocab,
                n_users, n_items, tr_users, tr_items, val_users, val_items,
                test_users, test_items, trainVars, sweepVars, buildVars>>
rmseVars == <<pcM, rm_pred, rm_actual, rm_result>>
loadVars == <<pcL, fs_readable, fs_columns, ld_columns, ld_result, ld_reads,
              ld_printed>>
samVars == <<pcS, logitsOf, pr_text, pr_label, valid_df, stest_df, val_data,
             test_data, loop_i>>
vars == <<ratingVars, rmseVars, loadVars, samVars>>

(***************************************************************************)
(* Bounds of the model.                                                    *)
(***************************************************************************)
\* rows of the training table
MaxTrain == 2
\* the raw IDs; "unk" is the string the vocabulary cell uses as its own key
UserIDs == {"u1", "u2", "u3", "unk"}
ItemIDs == {"p1", "p2", "unk"}
\* the vocabulary and lookup cells never read Star
Stars == {5}
\* length of the arrays given to rmse
MaxLen == 3
\* ground-truth ratings (0 stands for "no rating") and predicted ratings
ActualVals == {0, 2, 5}
PredVals == {1, 2, 5}
\* numbers are held in fixed point: a float x is the integer x * Scale,
\* a mean of squares the integer x * Scale * Scale
Scale == 1000
\* length of the columns argument of load_data
MaxCols == 3
\* the column names of the CSV files
ColumnNames == {"id", "text", "label"}
\* class_num of the configured model
ClassNum == 5
\* the review texts, the row ids and the values of a logit
Texts == {"t1", "t2"}
RowIDs == {"a", "b"}
LogitVals == {-1, 2}
\* rows of the validation split
MaxRows == 2
\* the star a trained model predicts (the model is a black box; the bounded
\* set takes the models that predict one star for every pair)
PredStars == {4}
\* the values of n_users and n_items given to build_ncf_model on its own
MaxTable == 2

(***************************************************************************)
(* Helpers: Python lists, ranges and dicts.                                *)
(***************************************************************************)
Range(s) == {s[k] : k \in DOMAIN s}

SeqsUpTo(S, n) == UNION {[1..k -> S] : k \in 0..n}

Min(a, b) == IF a <= b THEN a ELSE b

\* range(lo, hi) as a list
PyRange(lo, hi) == [k \in 1..(IF hi > lo THEN hi - lo ELSE 0) |-> lo + k - 1]

\* zip(a, b): pairs up to the shorter argument
Zip(a, b) == [k \in 1..Min(Len(a), Len(b)) |-> <<a[k], b[k]>>]

EmptyDict == [x \in {} |-> 0]

\* d[k] = v
DictSet(d, k, v) == [x \in (DOMAIN d) \cup {k} |-> IF x = k THEN v ELSE d[x]]

\* dict(pairs): the pairs are inserted in order, a later pair replaces an
\* earlier one with the same key
RECURSIVE Dict(_)
Dict(pairs) ==
    IF pairs = <<>> THEN EmptyDict
    ELSE LET n == Len(pairs)
             d == Dict(SubSeq(pairs, 1, n - 1))
         IN  DictSet(d, pairs[n][1], pairs[n][2])

\* Series.unique(): the distinct values in order of first appearance
RECURSIVE Unique(_)
Unique(s) ==
    IF s = <<>> THEN <<>>
    ELSE LET n == Len(s)
             u == Unique(SubSeq(s, 1, n - 1))
         IN  IF s[n] \in Range(u) THEN u ELSE Append(u, s[n])

\* a column of a table as a list
ReviewerID(df) == [k \in DOMAIN df |-> df[k].ReviewerID]
ProductID(df) == [k \in DOMAIN df |-> df[k].ProductID]

(***************************************************************************)
(* Rating notebook: build_ncf_model.                                       *)
(***************************************************************************)
\* a dropout argument: a number (held in hundredths), or the string '0.15'
\* that is the default of the parameter
Rate(p) == [numeric |-> TRUE, percent |-> p]
DefaultDropout == [numeric |-> FALSE, percent |-> 15]

\* the values of output_layer: the two the function knows and two others
OutputLayers == {"dot", "mlp", "combine", "MLP"}

\* a keras Model, known by what it was built from
ModelOf(n_u, n_i, embed_size, percent, output_layer) ==
    [built |-> TRUE, n_users |-> n_u, n_items |-> n_i,
     embed_size |-> embed_size, dropout |-> percent,
     output_layer |-> output_layer]
NoModel ==
    [built |-> FALSE, n_users |-> 0, n_items |-> 0, embed_size |-> 0,
     dropout |-> 0, output_layer |-> ""]

Returned(m) == [raised |-> FALSE, error |-> "", model |-> m]
RaisedError(e) == [raised |-> TRUE, error |-> e, model |-> NoModel]

\* build_ncf_model with the dot product as the branch of every other value
build_ncf_model_else_dot(n_u, n_i, embed_size, dropout, output_layer) ==
    IF output_layer = "mlp"
    THEN IF dropout.numeric
         THEN Returned(ModelOf(n_u, n_i, embed_size, dropout.percent, "mlp"))
         ELSE RaisedError("TypeError")
    ELSE Returned(ModelOf(n_u, n_i, embed_size, dropout.percent, "dot"))

\* build_ncf_model: the dot branch never reads dropout; the mlp branch gives
\* it to Dropout, which rejects a rate that is not a number; every other
\* output_layer raises NotImplementedError before a Model is made
build_ncf_model(n_u, n_i, embed_size, dropout, output_layer) ==
    IF output_layer = "dot"
    THEN Returned(ModelOf(n_u, n_i, embed_size, dropout.percent, "dot"))
    ELSE IF output_layer = "mlp"
    THEN IF dropout.numeric
         THEN Returned(ModelOf(n_u, n_i, embed_size, dropout.percent, "mlp"))
         ELSE RaisedError("TypeError")
    ELSE RaisedError("NotImplementedError")

BuildArgs ==
    [n_users : 1..MaxTable, n_items : 1..MaxTable, embed_size : {16, 50},
     dropout : {DefaultDropout, Rate(0), Rate(15)},
     output_layer : OutputLayers]

NoArgs ==
    [n_users |-> 0, n_items |-> 0, embed_size |-> 0, dropout |-> Rate(0),
     output_layer |-> ""]

BuildIdle == pcB = "idle" /\ b_args = NoArgs /\ b_result = Returned(NoModel)

\* build_ncf_model called on its own
CallBuild ==
    /\ pcB = "ready"
    /\ b_result' = build_ncf_model(b_args.n_users, b_args.n_items,
                                   b_args.embed_size, b_args.dropout,
                                   b_args.output_layer)
    /\ pcB' = "done"
    /\ UNCHANGED <<pcR, tr_df, val_df, test_df, user_vocab, business_vocab,
                   n_users, n_items, tr_users, tr_items, val_users, val_items,
                   test_users, test_items, trainVars, sweepVars, b_args>>
    /\ UNCHANGED <<rmseVars, loadVars, samVars>>

(***************************************************************************)
(* Rating notebook: the trained model and the sweep cell's variables.      *)
(***************************************************************************)
\* a model after fit: what it was built from and the star it predicts
Trained(m, star) == [arch |-> m, star |-> star]
NoTrained == Trained(NoModel, 0)

\* model.predict([users, items]): one prediction for each pair
predict_all(m, users, items) == [k \in DOMAIN users |-> m.star]

embed_sizes == <<16, 50, 64, 128>>
\* dropouts = [0.0, 0.15, 0.3], in hundredths
dropouts == <<0, 15, 30>>

SweepIdle ==
    /\ pcW = "idle" /\ sw_e = 0 /\ sw_d = 0 /\ sw_i = 0
    /\ sw_files = EmptyDict

TrainIdle ==
    /\ tr_ratings = <<>> /\ val_ratings = <<>>
    /\ model = NoTrained /\ ypred = <<>>

(***************************************************************************)
(* Rating notebook: loading the tables.                                    *)
(***************************************************************************)
RatingRows == [ReviewerID : UserIDs, ProductID : ItemIDs, Star : Stars]

\* the training table: up to MaxTrain rows
TrainFrames == SeqsUpTo(RatingRows, MaxTrain)

\* a validation or test table: the lookups are applied row by row, so the
\* tables of no row and of one row are taken
ServeFrames == {<<>>} \cup {<<r>> : r \in RatingRows}

RatingIdle ==
    /\ pcR = "start"
    /\ tr_df = <<>> /\ val_df = <<>> /\ test_df = <<>>
    /\ user_vocab = EmptyDict /\ business_vocab = EmptyDict
    /\ n_users = 0 /\ n_items = 0
    /\ tr_users = <<>> /\ tr_items = <<>>
    /\ val_users = <<>> /\ val_items = <<>>
    /\ test_users = <<>> /\ test_items = <<>>
    /\ TrainIdle /\ SweepIdle /\ BuildIdle

\* tr_df = pd.read_csv(...); val_df = pd.read_csv(...)
LoadTables ==
    /\ pcR = "start"
    /\ \E t \in TrainFrames, v \in ServeFrames :
          /\ tr_df' = t
          /\ val_df' = v
    /\ pcR' = "loaded"
    /\ UNCHANGED <<test_df, user_vocab, business_vocab, n_users, n_items,
                   tr_users, tr_items, val_users, val_items, test_users,
                   test_items>>
    /\ UNCHANGED <<trainVars, sweepVars, buildVars>>
    /\ UNCHANGED <<rmseVars, loadVars, samVars>>

(***************************************************************************)
(* Rating notebook: the vocabulary cell.                                   *)
(***************************************************************************)
\* dict(zip(ids, range(1, len(ids) + 1))) followed by vocab['unk'] = 0
MakeVocab(ids) ==
    LET vocab == Dict(Zip(ids, PyRange(1, Len(ids) + 1)))
    IN  DictSet(vocab, "unk", 0)

BuildVocab ==
    /\ pcR = "loaded"
    /\ LET user_set == Unique(ReviewerID(tr_df))
           business_set == Unique(ProductID(tr_df))
       IN  /\ user_vocab' = MakeVocab(user_set)
           /\ business_vocab' = MakeVocab(business_set)
    /\ n_users' = Cardinality(DOMAIN user_vocab')
    /\ n_items' = Cardinality(DOMAIN business_vocab')
    /\ pcR' = "built"
    /\ UNCHANGED <<tr_df, val_df, test_df, tr_users, tr_items, val_users,
                   val_items, test_users, test_items>>
    /\ UNCHANGED <<trainVars, sweepVars, buildVars>>
    /\ UNCHANGED <<rmseVars, loadVars, samVars>>

(***************************************************************************)
(* Rating notebook: the index lookup cells.                                *)
(***************************************************************************)
\* the outcome of one lookup: an index, or a KeyError
Found(i) == [raised |-> FALSE, value |-> i]
KeyError == [raised |-> TRUE, value |-> 0]

\* lambda x: vocab[x]
TrainLookup(vocab, x) ==
    IF x \in DOMAIN vocab THEN Found(vocab[x]) ELSE KeyError

\* a lookup with no fallback for a missing key
ServeLookupNoFallback(vocab, x) == TrainLookup(vocab, x)

\* lambda x: vocab[x] if x in vocab else 0
ServeLookup(vocab, x) ==
    IF x \in DOMAIN vocab THEN Found(vocab[x]) ELSE Found(0)

\* a lookup that inserts every missing key, as vocab.setdefault(x, 0) would
after_lookups_setdefault(vocab, ids) ==
    [x \in DOMAIN vocab \cup Range(ids) |->
        IF x \in DOMAIN vocab THEN vocab[x] ELSE 0]

\* the dict after the lambdas have been applied to ids: `vocab[x]` and
\* `x in vocab` read the dict and assign nothing
after_lookups(vocab, ids) == vocab

AnyRaised(outs) == \E k \in DOMAIN outs : outs[k].raised
Values(outs) == [k \in DOMAIN outs |-> outs[k].value]

IndexCell ==
    /\ pcR = "built"
    /\ LET tu == [k \in DOMAIN tr_df |->
                     TrainLookup(user_vocab, tr_df[k].ReviewerID)]
           ti == [k \in DOMAIN tr_df |->
                     TrainLookup(business_vocab, tr_df[k].ProductID)]
           vu == [k \in DOMAIN val_df |->
                     ServeLookup(user_vocab, val_df[k].ReviewerID)]
           vi == [k \in DOMAIN val_df |->
                     ServeLookup(business_vocab, val_df[k].ProductID)]
       IN  IF AnyRaised(tu)
           THEN /\ pcR' = "raised"
                /\ UNCHANGED <<tr_users, tr_items, val_users, val_items>>
           ELSE /\ tr_users' = Values(tu)
                /\ IF AnyRaised(ti)
                   THEN /\ pcR' = "raised"
                        /\ UNCHANGED <<tr_items, val_users, val_items>>
                   ELSE /\ tr_items' = Values(ti)
                        /\ IF AnyRaised(vu)
                           THEN /\ pcR' = "raised"
                                /\ UNCHANGED <<val_users, val_items>>
                           ELSE /\ val_users' = Values(vu)
                                /\ IF AnyRaised(vi)
                                   THEN /\ pcR' = "raised"
                                        /\ UNCHANGED val_items
                                   ELSE /\ val_items' = Values(vi)
                                        /\ pcR' = "indexed"
    /\ user_vocab' = after_lookups(user_vocab,
                                    ReviewerID(tr_df) \o ReviewerID(val_df))
    /\ business_vocab' = after_lookups(business_vocab,
                                        ProductID(tr_df) \o ProductID(val_df))
    /\ UNCHANGED <<tr_df, val_df, test_df, n_users, n_items, test_users,
                   test_items>>
    /\ UNCHANGED <<trainVars, sweepVars, buildVars>>
    /\ UNCHANGED <<rmseVars, loadVars, samVars>>

\* a table with its Star column left as it is
AssignStarDropped(df, y) == df

\* df['Star'] = y: the Star of every row replaced by the entry of y
AssignStar(df, y) == [k \in DOMAIN df |-> [df[k] EXCEPT !.Star = y[k]]]

\* the Save Test prediction cell: test_df = pd.read_csv(...), its two
\* lookups, the model loaded from model.keras, test_df['Star'] = y_pred
TestCell ==
    /\ pcR = "evaluated"
    /\ \E t \in ServeFrames :
          LET tu == [k \in DOMAIN t |->
                        ServeLookup(user_vocab, t[k].ReviewerID)]
              ti == [k \in DOMAIN t |->
                        ServeLookup(business_vocab, t[k].ProductID)]
          IN  IF AnyRaised(tu)
              THEN /\ pcR' = "raised"
                   /\ test_df' = t
                   /\ UNCHANGED <<test_users, test_items, ypred>>
              ELSE /\ test_users' = Values(tu)
                   /\ IF AnyRaised(ti)
                      THEN /\ pcR' = "raised"
                           /\ test_df' = t
                           /\ UNCHANGED <<test_items, ypred>>
                      ELSE /\ test_items' = Values(ti)
                           /\ ypred' = predict_all(model, test_users',
                                                   test_items')
                           /\ test_df' = AssignStar(t, ypred')
                           /\ pcR' = "tested"
          /\ user_vocab' = after_lookups(user_vocab, ReviewerID(t))
          /\ business_vocab' = after_lookups(business_vocab, ProductID(t))
    /\ UNCHANGED <<tr_df, val_df, n_users, n_items, tr_users, tr_items,
                   val_users, val_items>>
    /\ UNCHANGED <<tr_ratings, val_ratings, model, sweepVars, buildVars>>
    /\ UNCHANGED <<rmseVars, loadVars, samVars>>

(***************************************************************************)
(* Rating notebook: rmse(pred, actual).                                    *)
(***************************************************************************)
\* the outcome of a numeric call: a number (fixed point), NaN, or an error
Number(v) == [raised |-> FALSE, nan |-> FALSE, value |-> v]
NaN == [raised |-> FALSE, nan |-> TRUE, value |-> 0]
ValueError == [raised |-> TRUE, nan |-> FALSE, value |-> 0]

\* a.nonzero(): the positions of the nonzero entries, ascending
RECURSIVE nonzero(_)
nonzero(a) ==
    IF a = <<>> THEN <<>>
    ELSE LET n == Len(a)
             r == nonzero(SubSeq(a, 1, n - 1))
         IN  IF a[n] # 0 THEN Append(r, n) ELSE r

\* a[idx].flatten(): the entries of a at the positions idx
Take(a, idx) == [k \in 1..Len(idx) |-> a[idx[k]]]

\* the sum of (a[k] - b[k])^2 over the positions of a
RECURSIVE SumSqDiff(_, _)
SumSqDiff(a, b) ==
    IF a = <<>> THEN 0
    ELSE LET n == Len(a)
         IN  SumSqDiff(SubSeq(a, 1, n - 1), SubSeq(b, 1, n - 1))
                 + (a[n] - b[n]) * (a[n] - b[n])

\* the largest r in lo..hi with r * r <= n
RECURSIVE ISqrtIn(_, _, _)
ISqrtIn(n, lo, hi) ==
    IF lo >= hi THEN lo
    ELSE LET mid == (lo + hi + 1) \div 2
         IN  IF mid * mid <= n THEN ISqrtIn(n, mid, hi)
                               ELSE ISqrtIn(n, lo, mid - 1)

\* np.sqrt of a fixed-point number x * Scale * Scale: the fixed-point number
\* sqrt(x) * Scale, rounded down; NaN and errors pass through (46340 is the
\* largest root whose square is a 32-bit integer)
sqrt(x) ==
    IF x.raised \/ x.nan THEN x
    ELSE Number(ISqrtIn(x.value, 0, Min(x.value, 46340)))

\* np.mean of the squared differences with no check of the input: the mean
\* of an empty array is NaN
numpy_mean_squared(y_true, y_pred) ==
    IF Len(y_true) = 0 THEN NaN
    ELSE Number((SumSqDiff(y_true, y_pred) * Scale * Scale) \div Len(y_true))

\* sklearn.metrics.mean_squared_error: the input check raises ValueError for
\* arrays of different lengths and for arrays of no sample
mean_squared_error(y_true, y_pred) ==
    IF Len(y_true) # Len(y_pred) \/ Len(y_true) = 0 THEN ValueError
    ELSE Number((SumSqDiff(y_true, y_pred) * Scale * Scale) \div Len(y_true))

\* rmse with no filtering of the zero ratings
rmseNoFilter(pred, actual) == sqrt(mean_squared_error(pred, actual))

\* rmse with the predictions filtered and the ratings left whole
rmseFilterPredOnly(pred, actual) ==
    sqrt(mean_squared_error(Take(pred, nonzero(actual)), actual))

rmse(pred, actual) ==
    LET pred1 == Take(pred, nonzero(actual))
        actual1 == Take(actual, nonzero(actual))
    IN  sqrt(mean_squared_error(pred1, actual1))

CallRmse ==
    /\ pcM = "ready"
    /\ rm_result' = rmse(rm_pred, rm_actual)
    /\ pcM' = "done"
    /\ UNCHANGED <<rm_pred, rm_actual>>
    /\ UNCHANGED <<ratingVars, loadVars, samVars>>

(***************************************************************************)
(* Rating notebook: the ratings, training, evaluation and save cells.      *)
(***************************************************************************)
StarOf(df) == [k \in DOMAIN df |-> df[k].Star]

\* tr_ratings = tr_df.Star.values; val_ratings = val_df.Star.values
RatingsCell ==
    /\ pcR = "indexed"
    /\ tr_ratings' = StarOf(tr_df)
    /\ val_ratings' = StarOf(val_df)
    /\ pcR' = "ratings"
    /\ UNCHANGED <<tr_df, val_df, test_df, user_vocab, business_vocab,
                   n_users, n_items, tr_users, tr_items, val_users, val_items,
                   test_users, test_items, model, ypred, sweepVars, buildVars>>
    /\ UNCHANGED <<rmseVars, loadVars, samVars>>

\* model = build_ncf_model(n_users, n_items, embed_size=16, dropout=0.0,
\* output_layer='mlp')
BuildModelCell ==
    /\ pcR = "ratings"
    /\ LET b == build_ncf_model(n_users, n_items, 16, Rate(0), "mlp")
       IN  IF b.raised
           THEN pcR' = "failed" /\ UNCHANGED model
           ELSE pcR' = "model_built" /\ model' = Trained(b.model, 0)
    /\ UNCHANGED <<tr_df, val_df, test_df, user_vocab, business_vocab,
                   n_users, n_items, tr_users, tr_items, val_users, val_items,
                   test_users, test_items, tr_ratings, val_ratings, ypred,
                   sweepVars, buildVars>>
    /\ UNCHANGED <<rmseVars, loadVars, samVars>>

\* model.compile, model.fit, model.save('model.keras'): the fitted model is
\* any model of the bounded set
TrainCell ==
    /\ pcR = "model_built"
    /\ \E star \in PredStars : model' = Trained(model.arch, star)
    /\ pcR' = "trained"
    /\ UNCHANGED <<tr_df, val_df, test_df, user_vocab, business_vocab,
                   n_users, n_items, tr_users, tr_items, val_users, val_items,
                   test_users, test_items, tr_ratings, val_ratings, ypred,
                   sweepVars, buildVars>>
    /\ UNCHANGED <<rmseVars, loadVars, samVars>>

\* predict and rmse on the train set, then on the validation set; an rmse
\* that raises ends the cell
EvalWith(m, done) ==
    LET p_tr == predict_all(m, tr_users, tr_items)
        p_val == predict_all(m, val_users, val_items)
    IN  IF rmse(p_tr, tr_ratings).raised
        THEN ypred' = p_tr /\ pcR' = "failed"
        ELSE /\ ypred' = p_val
             /\ pcR' = IF rmse(p_val, val_ratings).raised THEN "failed"
                                                          ELSE done

\* the evaluation cell, on the model loaded from model.keras
EvalCell ==
    /\ pcR = "trained"
    /\ EvalWith(model, "evaluated")
    /\ UNCHANGED <<tr_df, val_df, test_df, user_vocab, business_vocab,
                   n_users, n_items, tr_users, tr_items, val_users, val_items,
                   test_users, test_items, tr_ratings, val_ratings, model,
                   sweepVars, buildVars>>
    /\ UNCHANGED <<rmseVars, loadVars, samVars>>

\* the Save Validation prediction cell: val_df['Star'] = y_pred
SaveValCell ==
    /\ pcR = "tested"
    /\ ypred' = predict_all(model, val_users, val_items)
    /\ val_df' = AssignStar(val_df, ypred')
    /\ pcR' = "saved_val"
    /\ UNCHANGED <<tr_df, test_df, user_vocab, business_vocab,
                   n_users, n_items, tr_users, tr_items, val_users, val_items,
                   test_users, test_items, tr_ratings, val_ratings, model,
                   sweepVars, buildVars>>
    /\ UNCHANGED <<rmseVars, loadVars, samVars>>

\* the evaluation of the model loaded from model_submission.h5, a file that
\* holds any model of the bounded set
SubmissionEvalCell ==
    /\ pcR = "saved_val"
    /\ \E star \in PredStars :
          /\ model' = Trained(model.arch, star)
          /\ EvalWith(model', "evaluated_submission")
    /\ UNCHANGED <<tr_df, val_df, test_df, user_vocab, business_vocab,
                   n_users, n_items, tr_users, tr_items, val_users, val_items,
                   test_users, test_items, tr_ratings, val_ratings,
                   sweepVars, buildVars>>
    /\ UNCHANGED <<rmseVars, loadVars, samVars>>

(***************************************************************************)
(* Rating notebook: the Parameter-Tuning cell.                             *)
(***************************************************************************)
\* the checkpoint ModelCheckpoint writes: the weights of the model built
\* with this embed size and dropout
Checkpoint(embed, dp) == [embed_size |-> embed, dropout |-> dp]

\* a counter that is never advanced
NextCounterStuck(i) == i

\* i+=1
NextCounter(i) == i + 1

\* the loop variables after the body: the next dropout, or the next embed
\* size with the first dropout
SweepAdvance(e, d) ==
    IF d < Len(dropouts) THEN <<e, d + 1>> ELSE <<e + 1, 1>>

\* the body of the nested loops for one configuration
SweepStep ==
    /\ pcW = "sweep"
    /\ sw_e <= Len(embed_sizes)
    /\ LET embed == embed_sizes[sw_e]
           dp == dropouts[sw_d]
           b == build_ncf_model(n_users, n_items, embed, Rate(dp), "mlp")
       IN  IF b.raised
           THEN /\ pcW' = "failed"
                /\ UNCHANGED <<model, ypred, sw_e, sw_d, sw_i, sw_files>>
           ELSE \E star \in PredStars :
                   LET fitted == Trained(b.model, star)
                       y == predict_all(fitted, val_users, val_items)
                   IN  /\ model' = fitted
                       /\ sw_files' = DictSet(sw_files, sw_i,
                                              Checkpoint(embed, dp))
                       /\ ypred' = y
                       /\ IF rmse(y, val_ratings).raised
                          THEN /\ pcW' = "failed"
                               /\ UNCHANGED <<sw_e, sw_d, sw_i>>
                          ELSE /\ sw_i' = NextCounter(sw_i)
                               /\ sw_e' = SweepAdvance(sw_e, sw_d)[1]
                               /\ sw_d' = SweepAdvance(sw_e, sw_d)[2]
                               /\ pcW' = "sweep"
    /\ UNCHANGED <<pcR, tr_df, val_df, test_df, user_vocab, business_vocab,
                   n_users, n_items, tr_users, tr_items, val_users, val_items,
                   test_users, test_items, tr_ratings, val_ratings, buildVars>>
    /\ UNCHANGED <<rmseVars, loadVars, samVars>>

\* embed_sizes is exhausted
SweepEnd ==
    /\ pcW = "sweep"
    /\ sw_e > Len(embed_sizes)
    /\ pcW' = "done"
    /\ UNCHANGED <<pcR, tr_df, val_df, test_df, user_vocab, business_vocab,
                   n_users, n_items, tr_users, tr_items, val_users, val_items,
                   test_users, test_items, trainVars, sw_e, sw_d, sw_i,
                   sw_files, buildVars>>
    /\ UNCHANGED <<rmseVars, loadVars, samVars>>

\* the loop variables and files after the loops have run from (e, d) with
\* no body raising
RECURSIVE SweepRun(_, _, _, _)
SweepRun(e, d, i, files) ==
    IF e > Len(embed_sizes)
    THEN [e |-> e, d |-> d, i |-> i, files |-> files]
    ELSE SweepRun(SweepAdvance(e, d)[1], SweepAdvance(e, d)[2],
                  NextCounter(i),
                  DictSet(files, i, Checkpoint(embed_sizes[e], dropouts[d])))

\* the Parameter-Tuning cell run as a whole after the cells before it; rmse
\* raises on the ratings of the validation set or not at all, so the cell
\* stops in its first configuration or runs through
SweepCell ==
    /\ pcR = "evaluated_submission"
    /\ LET first == build_ncf_model(n_users, n_items, embed_sizes[1],
                                    Rate(dropouts[1]), "mlp")
           last == build_ncf_model(n_users, n_items,
                                   embed_sizes[Len(embed_sizes)],
                                   Rate(dropouts[Len(dropouts)]), "mlp")
           end == SweepRun(1, 1, 0, EmptyDict)
       IN  \E star \in PredStars :
              IF rmse(predict_all(Trained(first.model, star), val_users,
                                  val_items), val_ratings).raised
              THEN /\ model' = Trained(first.model, star)
                   /\ ypred' = predict_all(model', val_users, val_items)
                   /\ sw_e' = 1 /\ sw_d' = 1 /\ sw_i' = 0
                   /\ sw_files' = DictSet(EmptyDict, 0,
                                     Checkpoint(embed_sizes[1], dropouts[1]))
                   /\ pcW' = "failed" /\ pcR' = "failed"
              ELSE /\ model' = Trained(last.model, star)
                   /\ ypred' = predict_all(model', val_users, val_items)
                   /\ sw_e' = end.e /\ sw_d' = end.d /\ sw_i' = end.i
                   /\ sw_files' = end.files
                   /\ pcW' = "done" /\ pcR' = "swept"
    /\ UNCHANGED <<tr_df, val_df, test_df, user_vocab, business_vocab,
                   n_users, n_items, tr_users, tr_items, val_users, val_items,
                   test_users, test_items, tr_ratings, val_ratings, buildVars>>
    /\ UNCHANGED <<rmseVars, loadVars, samVars>>

RmseIdle ==
    /\ pcM = "idle" /\ rm_pred = <<>> /\ rm_actual = <<>>
    /\ rm_result = Number(0)

(***************************************************************************)
(* Sentiment notebook: load_data(split_name, columns, folder).             *)
(***************************************************************************)
\* a dataframe, known by its columns in order, or an exception
Frame(cols) == [raised |-> FALSE, columns |-> cols]
Raised == [raised |-> TRUE, columns |-> <<>>]

\* the header of a CSV file: distinct column names, at least one
FileHeaders ==
    {h \in SeqsUpTo(ColumnNames, Cardinality(ColumnNames)) :
        /\ Len(h) >= 1
        /\ \A i, j \in DOMAIN h : i # j => h[i] # h[j]}

\* pd.read_csv(f'{folder}/{split_name}.csv'): raises when the file is
\* missing or malformed
read_csv(readable, header) == IF readable THEN Frame(header) ELSE Raised

\* df.loc[:, columns]: the listed columns in the listed order; KeyError when
\* a listed column is not in df
loc(df, columns) ==
    IF \A c \in Range(columns) : c \in Range(df.columns)
    THEN Frame(columns)
    ELSE Raised

\* the listed columns that df has, in the listed order
RECURSIVE present(_, _)
present(df, columns) ==
    IF columns = <<>> THEN <<>>
    ELSE LET n == Len(columns)
             r == present(df, SubSeq(columns, 1, n - 1))
         IN  IF columns[n] \in Range(df.columns) THEN Append(r, columns[n])
                                                  ELSE r

\* an except branch that returns the requested columns the file has
load_data_except_present(readable, header, columns, reads, printed) ==
    LET df == read_csv(readable, header)
    IN  [result |-> IF df.raised THEN df ELSE Frame(present(df, columns)),
         reads |-> reads + 1,
         printed |-> Append(printed, "Failed loading specified columns")]

\* the except branch: print, read the file again, return all of it
load_data_except(readable, header, columns, reads, printed) ==
    [result |-> read_csv(readable, header),
     reads |-> reads + 1,
     printed |-> Append(printed, "Failed loading specified columns")]

\* load_data: its result, the number of read_csv calls and what it printed
load_data(readable, header, columns) ==
    LET printed1 == <<"select columns">>
        df == read_csv(readable, header)
    IN  IF df.raised
        THEN load_data_except(readable, header, columns, 1, printed1)
        ELSE LET sel == loc(df, columns)
             IN  IF sel.raised
                 THEN load_data_except(readable, header, columns, 1,
                                         printed1)
                 ELSE [result |-> sel,
                       reads |-> 1,
                       printed |-> Append(printed1, "Success")]

CallLoadData ==
    /\ pcL = "ready"
    /\ LET out == load_data(fs_readable, fs_columns, ld_columns)
       IN  /\ ld_result' = out.result
           /\ ld_reads' = out.reads
           /\ ld_printed' = out.printed
    /\ pcL' = "done"
    /\ UNCHANGED <<fs_readable, fs_columns, ld_columns>>
    /\ UNCHANGED <<ratingVars, rmseVars, samVars>>

LoadIdle ==
    /\ pcL = "idle" /\ fs_readable = TRUE /\ fs_columns = <<>>
    /\ ld_columns = <<>> /\ ld_reads = 0 /\ ld_printed = <<>>
    /\ ld_result = Frame(<<>>)

(***************************************************************************)
(* Sentiment notebook: SAM.predict and the prediction loops.               *)
(***************************************************************************)
LogitVectors == [1..ClassNum -> LogitVals]

\* the logit vectors with one class above the others
PeakedLogitVectors ==
    {l \in LogitVectors :
        \E c \in 1..ClassNum : \A j \in 1..ClassNum : j # c => l[j] < l[c]}

RECURSIVE Pow2(_)
Pow2(n) == IF n <= 0 THEN 1 ELSE 2 * Pow2(n - 1)

RECURSIVE SumSeq(_)
SumSeq(a) == IF a = <<>> THEN 0
             ELSE a[Len(a)] + SumSeq(SubSeq(a, 1, Len(a) - 1))

\* the smallest entry of a non-empty list
MinOf(a) == CHOOSE m \in Range(a) : \A x \in Range(a) : m <= x

\* logits.softmax(0) in fixed point, the exponential taken to base 2 and
\* shifted by the smallest logit
softmax(l) ==
    LET e == [i \in DOMAIN l |-> Pow2(l[i] - MinOf(l))]
    IN  [i \in DOMAIN l |-> (e[i] * Scale) \div SumSeq(e)]

\* tensor.argmax(): the 0-based position of the first largest entry
argmax(p) ==
    (CHOOSE i \in DOMAIN p :
        /\ \A j \in DOMAIN p : p[j] <= p[i]
        /\ \A j \in 1..(i - 1) : p[j] < p[i]) - 1

\* predict with the class position left 0-based
predictZeroBased(text) == argmax(softmax(logitsOf[text]))

\* SAM.predict(text)['label']; logitsOf[text] is the value of
\* self.linear(self.pretrained_model(...).pooler_output)[0] for the text
\* under the loaded checkpoint
predict(text) == argmax(softmax(logitsOf[text])) + 1

\* model.predict(text=...) called on one text
Predict ==
    /\ pcS = "ready"
    /\ \E text \in Texts :
          /\ pr_text' = text
          /\ pr_label' = predict(text)
    /\ pcS' = "predicted"
    /\ UNCHANGED <<logitsOf, valid_df, stest_df, val_data, test_data, loop_i>>
    /\ UNCHANGED <<ratingVars, rmseVars, loadVars>>

\* a record built from row k's id and the first row's text
recordOfFirstText(df, k) ==
    [id |-> df[k].id, label |-> predict(df[1].text)]

\* {'id': row[1]['id'], 'label': predict['label'].cpu().numpy()} for the
\* k-th row of df
recordOf(df, k) == [id |-> df[k].id, label |-> predict(df[k].text)]

\* one iteration of the validation loop
ValLoopStep ==
    /\ pcS = "val_loop"
    /\ loop_i < Len(valid_df)
    /\ val_data' = Append(val_data, recordOf(valid_df, loop_i + 1))
    /\ loop_i' = loop_i + 1
    /\ UNCHANGED <<pcS, logitsOf, pr_text, pr_label, valid_df, stest_df,
                   test_data>>
    /\ UNCHANGED <<ratingVars, rmseVars, loadVars>>

\* valid_df.iterrows() is exhausted; the test cell starts with test_data=[]
ValLoopEnd ==
    /\ pcS = "val_loop"
    /\ loop_i >= Len(valid_df)
    /\ pcS' = "test_loop"
    /\ test_data' = <<>>
    /\ loop_i' = 0
    /\ UNCHANGED <<logitsOf, pr_text, pr_label, valid_df, stest_df, val_data>>
    /\ UNCHANGED <<ratingVars, rmseVars, loadVars>>

\* one iteration of the test loop
TestLoopStep ==
    /\ pcS = "test_loop"
    /\ loop_i < Len(stest_df)
    /\ test_data' = Append(test_data, recordOf(stest_df, loop_i + 1))
    /\ loop_i' = loop_i + 1
    /\ UNCHANGED <<pcS, logitsOf, pr_text, pr_label, valid_df, stest_df,
                   val_data>>
    /\ UNCHANGED <<ratingVars, rmseVars, loadVars>>

\* test_df.iterrows() is exhausted
TestLoopEnd ==
    /\ pcS = "test_loop"
    /\ loop_i >= Len(stest_df)
    /\ pcS' = "done"
    /\ UNCHANGED <<logitsOf, pr_text, pr_label, valid_df, stest_df, val_data,
                   test_data, loop_i>>
    /\ UNCHANGED <<ratingVars, rmseVars, loadVars>>

SamIdle ==
    /\ pcS = "idle" /\ logitsOf = EmptyDict /\ pr_text = "" /\ pr_label = 0
    /\ valid_df = <<>> /\ stest_df = <<>> /\ val_data = <<>>
    /\ test_data = <<>> /\ loop_i = 0

(***************************************************************************)
(* The rating notebook's cells, in the order of the notebook.              *)
(***************************************************************************)
InitVocab == RatingIdle /\ RmseIdle /\ LoadIdle /\ SamIdle

NextVocab ==
    \/ LoadTables
    \/ BuildVocab
    \/ IndexCell
    \/ RatingsCell
    \/ BuildModelCell
    \/ TrainCell
    \/ EvalCell
    \/ TestCell
    \/ SaveValCell
    \/ SubmissionEvalCell
    \/ SweepCell

SpecVocab == InitVocab /\ [][NextVocab]_vars

(***************************************************************************)
(* The Parameter-Tuning cell step by step, run on the tables, vocabularies *)
(* and index arrays left by the cells before it (tables for which the      *)
(* evaluation cells do not raise: at least one row each).                  *)
(***************************************************************************)
\* the tables of the sweep: one training row, and one validation row of the
\* first product with any user, seen in training or not
SweepTrainFrames == {<<r>> : r \in RatingRows}
SweepValFrames == {<<r>> : r \in {q \in RatingRows : q.ProductID = "p1"}}

InitSweep ==
    /\ pcR = "evaluated_submission"
    /\ \E t \in SweepTrainFrames, v \in SweepValFrames :
          /\ tr_df = t
          /\ val_df = v
          /\ user_vocab = MakeVocab(Unique(ReviewerID(t)))
          /\ business_vocab = MakeVocab(Unique(ProductID(t)))
          /\ tr_ratings = StarOf(t)
          /\ val_ratings = StarOf(v)
    /\ test_df = <<>> /\ test_users = <<>> /\ test_items = <<>>
    /\ n_users = Cardinality(DOMAIN user_vocab)
    /\ n_items = Cardinality(DOMAIN business_vocab)
    /\ tr_users = Values([k \in DOMAIN tr_df |->
                             TrainLookup(user_vocab, tr_df[k].ReviewerID)])
    /\ tr_items = Values([k \in DOMAIN tr_df |->
                             TrainLookup(business_vocab, tr_df[k].ProductID)])
    /\ val_users = Values([k \in DOMAIN val_df |->
                              ServeLookup(user_vocab, val_df[k].ReviewerID)])
    /\ val_items = Values([k \in DOMAIN val_df |->
                              ServeLookup(business_vocab, val_df[k].ProductID)])
    /\ model = NoTrained /\ ypred = <<>>
    /\ pcW = "sweep" /\ sw_e = 1 /\ sw_d = 1 /\ sw_i = 0
    /\ sw_files = EmptyDict
    /\ BuildIdle /\ RmseIdle /\ LoadIdle /\ SamIdle

NextSweep ==
    \/ SweepStep
    \/ SweepEnd

\* a notebook cell that has started runs on until it ends or raises
SpecSweep == InitSweep /\ [][NextSweep]_vars /\ WF_vars(NextSweep)

(***************************************************************************)
(* build_ncf_model applied to arguments drawn from the bounded sets.       *)
(***************************************************************************)
InitBuild ==
    /\ pcB = "ready"
    /\ b_args \in BuildArgs
    /\ b_result = Returned(NoModel)
    /\ pcR = "start"
    /\ tr_df = <<>> /\ val_df = <<>> /\ test_df = <<>>
    /\ user_vocab = EmptyDict /\ business_vocab = EmptyDict
    /\ n_users = 0 /\ n_items = 0
    /\ tr_users = <<>> /\ tr_items = <<>>
    /\ val_users = <<>> /\ val_items = <<>>
    /\ test_users = <<>> /\ test_items = <<>>
    /\ TrainIdle /\ SweepIdle
    /\ RmseIdle /\ LoadIdle /\ SamIdle

NextBuild == CallBuild

SpecBuild == InitBuild /\ [][NextBuild]_vars

(***************************************************************************)
(* rmse applied to arrays drawn from the bounded sets.                      *)
(***************************************************************************)
\* rmse is called on two arrays of the same length
InitRmse ==
    /\ pcM = "ready"
    /\ \E n \in 0..MaxLen :
          /\ rm_pred \in [1..n -> PredVals]
          /\ rm_actual \in [1..n -> ActualVals]
    /\ rm_result = Number(0)
    /\ RatingIdle /\ LoadIdle /\ SamIdle

NextRmse == CallRmse

SpecRmse == InitRmse /\ [][NextRmse]_vars

(***************************************************************************)
(* load_data applied to a file and a columns argument drawn from the       *)
(* bounded sets.                                                           *)
(***************************************************************************)
InitLoad ==
    /\ pcL = "ready"
    /\ fs_readable \in BOOLEAN
    /\ fs_columns \in FileHeaders
    /\ ld_columns \in SeqsUpTo(ColumnNames, MaxCols)
    /\ ld_result = Frame(<<>>) /\ ld_reads = 0 /\ ld_printed = <<>>
    /\ RatingIdle /\ RmseIdle /\ SamIdle

NextLoad == CallLoadData

SpecLoad == InitLoad /\ [][NextLoad]_vars

(***************************************************************************)
(* SAM.predict applied to a text under any checkpoint of the bounded set.  *)
(***************************************************************************)
InitPredict ==
    /\ pcS = "ready"
    /\ logitsOf \in [Texts -> LogitVectors]
    /\ pr_text = "" /\ pr_label = 0
    /\ valid_df = <<>> /\ stest_df = <<>> /\ val_data = <<>>
    /\ test_data = <<>> /\ loop_i = 0
    /\ RatingIdle /\ RmseIdle /\ LoadIdle

NextPredict == Predict

SpecPredict == InitPredict /\ [][NextPredict]_vars

(***************************************************************************)
(* The two prediction loops over the loaded splits.  The loops read the    *)
(* columns id and text; the test split is taken with at most one row.      *)
(***************************************************************************)
ReviewRows == [id : RowIDs, text : Texts]

InitLoop ==
    /\ pcS = "val_loop"
    /\ logitsOf \in [Texts -> PeakedLogitVectors]
    /\ pr_text = "" /\ pr_label = 0
    /\ valid_df \in SeqsUpTo(ReviewRows, MaxRows)
    /\ stest_df \in {<<>>} \cup {<<r>> : r \in ReviewRows}
    /\ val_data = <<>> /\ test_data = <<>> /\ loop_i = 0
    /\ RatingIdle /\ RmseIdle /\ LoadIdle

NextLoop ==
    \/ ValLoopStep
    \/ ValLoopEnd
    \/ TestLoopStep
    \/ TestLoopEnd

SpecLoop == InitLoop /\ [][NextLoop]_vars

(***************************************************************************)
(* Claims about the vocabularies (C1, C2, C3), under SpecVocab.            *)
(***************************************************************************)
VocabBuilt == pcR \notin {"start", "loaded"}

\* the index lookup cell has run to its end
Indexed == pcR \notin {"start", "loaded", "built", "raised"}

\* the Save Test prediction cell has run to its end
Tested == pcR \in {"tested", "saved_val", "evaluated_submission", "swept"}

TrainUsers == Range(ReviewerID(tr_df))
TrainItems == Range(ProductID(tr_df))

\* the position of the first occurrence of x in the list s
FirstPos(s, x) == CHOOSE k \in DOMAIN s :
                      s[k] = x /\ \A j \in 1..(k - 1) : s[j] # x

\* how many distinct values the list s holds up to position k
DistinctUpTo(s, k) == Cardinality({s[j] : j \in 1..k})

\* every distinct raw ID of the list col has exactly one index in 1..N, N
\* the number of distinct IDs, and no two raw IDs share an index
IndexedOneToN(vocab, col) ==
    LET ids == Range(col)
        N == Cardinality(ids)
    IN  /\ \A x \in ids : x \in DOMAIN vocab /\ vocab[x] \in 1..N
        /\ \A x, y \in ids : x # y => vocab[x] # vocab[y]

\* C1: once the vocabularies are built, every distinct raw ID of the
\* training data (users and items alike) is mapped to exactly one index in
\* 1..N, N the number of distinct IDs, and no two raw IDs share an index.
C1_DistinctIndexInRange ==
    VocabBuilt =>
        /\ IndexedOneToN(user_vocab, ReviewerID(tr_df))
        /\ IndexedOneToN(business_vocab, ProductID(tr_df))

\* C2: no validation or test lookup ends in a missing-key error, and every
\* raw ID that is absent from the training data is looked up as index 0,
\* the index held under the key 'unk'.
C2_UnknownFallsBackToZero ==
    /\ pcR # "raised"
    /\ VocabBuilt => user_vocab["unk"] = 0 /\ business_vocab["unk"] = 0
    /\ Indexed =>
          \A k \in DOMAIN val_df :
             /\ val_df[k].ReviewerID \notin TrainUsers => val_users[k] = 0
             /\ val_df[k].ProductID \notin TrainItems => val_items[k] = 0
    /\ Tested =>
          \A k \in DOMAIN test_df :
             /\ test_df[k].ReviewerID \notin TrainUsers => test_users[k] = 0
             /\ test_df[k].ProductID \notin TrainItems => test_items[k] = 0

\* a validation row and a test row with IDs unseen in a non-empty training
\* table have been looked up
C2_Witness ==
    /\ pcR = "tested"
    /\ tr_df # <<>>
    /\ \E k \in DOMAIN val_df :
          /\ val_df[k].ReviewerID \notin TrainUsers \cup {"unk"}
          /\ val_df[k].ProductID \in TrainItems
    /\ \E k \in DOMAIN test_df :
          /\ test_df[k].ProductID \notin TrainItems \cup {"unk"}
          /\ test_df[k].ReviewerID \in TrainUsers

\* the indices of the list col follow the order of first occurrence, the
\* k-th distinct ID getting index k
FirstSeenOrder(vocab, col) ==
    /\ \A a, b \in Range(col) :
          FirstPos(col, a) < FirstPos(col, b) => vocab[a] < vocab[b]
    /\ \A a \in Range(col) :
          vocab[a] = DistinctUpTo(col, FirstPos(col, a))

\* C3: index assignment follows first-seen order: an ID first seen earlier
\* has the smaller index and the k-th distinct ID has index k; for the
\* training users u1, u2 the vocabulary is u1->1, u2->2, unk->0 and the
\* unseen user u3 is looked up as 0.
C3_FirstSeenOrder ==
    /\ VocabBuilt =>
          /\ FirstSeenOrder(user_vocab, ReviewerID(tr_df))
          /\ FirstSeenOrder(business_vocab, ProductID(tr_df))
    /\ (VocabBuilt /\ ReviewerID(tr_df) = <<"u1", "u2">>) =>
          /\ user_vocab = [x \in {"u1", "u2", "unk"} |->
                              IF x = "u1" THEN 1 ELSE IF x = "u2" THEN 2 ELSE 0]
          /\ ServeLookup(user_vocab, "u3") = Found(0)

(***************************************************************************)
(* Claims about rmse (C4, C5, C6), under SpecRmse.                         *)
(***************************************************************************)
\* the positions whose ground-truth rating is not 0
Kept == {k \in DOMAIN rm_actual : rm_actual[k] # 0}

\* the sum of the squared differences over a set of positions
RECURSIVE SquaredErrorOver(_)
SquaredErrorOver(K) ==
    IF K = {} THEN 0
    ELSE LET k == CHOOSE j \in K : TRUE
             d == rm_pred[k] - rm_actual[k]
         IN  d * d + SquaredErrorOver(K \ {k})

\* r is the fixed-point square root of the mean of the squared differences
\* over the positions K
IsRootMeanSquareOver(r, K) ==
    LET mean == (SquaredErrorOver(K) * Scale * Scale) \div Cardinality(K)
    IN  r >= 0 /\ r * r <= mean /\ mean < (r + 1) * (r + 1)

\* C4: rmse drops exactly the positions whose actual value is 0, from both
\* arrays, and returns the square root of the mean of the squared
\* differences over the remaining positions; a prediction at a dropped
\* position has no influence.
C4_RmseOverNonzeroActual ==
    (pcM = "done" /\ Kept # {}) =>
        /\ ~rm_result.raised /\ ~rm_result.nan
        /\ IsRootMeanSquareOver(rm_result.value, Kept)

\* rmse has returned for arrays with a dropped position whose prediction
\* differs from the rating and a kept position with an error
C4_Witness ==
    /\ pcM = "done"
    /\ \E k \in DOMAIN rm_actual : rm_actual[k] = 0 /\ rm_pred[k] # 0
    /\ \E k \in Kept : rm_pred[k] # rm_actual[k]
    /\ rm_result.value > 0

\* C5: with at least one nonzero actual value rmse is a number >= 0, and it
\* is 0 when pred equals actual at every position whose actual is nonzero,
\* whatever pred holds where actual is 0.
C5_RmseNonNegativeAndZero ==
    (pcM = "done" /\ Kept # {}) =>
        /\ ~rm_result.raised /\ ~rm_result.nan
        /\ rm_result.value >= 0
        /\ (\A k \in Kept : rm_pred[k] = rm_actual[k]) => rm_result.value = 0

\* rmse has returned 0 for arrays that agree where actual is nonzero and
\* disagree where it is 0
C5_Witness ==
    /\ pcM = "done"
    /\ Kept # {}
    /\ \A k \in Kept : rm_pred[k] = rm_actual[k]
    /\ \E k \in DOMAIN rm_actual : rm_actual[k] = 0 /\ rm_pred[k] # 0
    /\ rm_result = Number(0)

\* C6: when every actual value is 0 (the empty input included) rmse ends in
\* an error and returns neither NaN nor a number.
C6_AllZeroRaises ==
    (pcM = "done" /\ Kept = {}) => rm_result.raised

\* rmse has been called on non-empty arrays whose actual values are all 0
C6_Witness ==
    /\ pcM = "done"
    /\ rm_actual # <<>>
    /\ Kept = {}
    /\ rm_result.raised

(***************************************************************************)
(* Claims about load_data (C8, C9), under SpecLoad.                        *)
(***************************************************************************)
AllRequestedInFile == Range(ld_columns) \subseteq Range(fs_columns)

\* C8: for a readable file that has every requested column the result has
\* exactly the requested columns in the requested order; when a requested
\* column is absent the call does not fail and returns all the columns of
\* the file, unchanged.
C8_SelectOrFallBack ==
    (pcL = "done" /\ fs_readable) =>
        /\ ~ld_result.raised
        /\ AllRequestedInFile => ld_result.columns = ld_columns
        /\ ~AllRequestedInFile => ld_result.columns = fs_columns

\* load_data has fallen back to all columns for a request naming a column
\* the file has and one it has not
C8_Witness ==
    /\ pcL = "done" /\ fs_readable
    /\ \E c \in Range(ld_columns) : c \notin Range(fs_columns)
    /\ \E c \in Range(ld_columns) : c \in Range(fs_columns)
    /\ ld_result = Frame(fs_columns)
    /\ ld_reads = 2

\* C9: when the file cannot be read load_data returns no dataframe, the
\* failure reaches the caller, and the file is not read again after the
\* failed read.
C9_ReadFailureNotRetried ==
    (pcL = "done" /\ ~fs_readable) =>
        /\ ld_result.raised
        /\ ld_reads = 1

(***************************************************************************)
(* Claims about SAM.predict (C7, under SpecPredict) and the prediction     *)
(* loops (C10, under SpecLoop).                                            *)
(***************************************************************************)
\* C7: the label SAM.predict returns is a 1-based class index: the position
\* of a largest logit plus 1, an integer in 1..class_num and never 0.
C7_LabelIsOneBasedClass ==
    pcS = "predicted" =>
        /\ pr_label \in 1..ClassNum
        /\ pr_label # 0
        /\ \A j \in 1..ClassNum :
              logitsOf[pr_text][j] <= logitsOf[pr_text][pr_label]

\* predict has returned the last class for a text whose last logit alone is
\* the largest, under a checkpoint that gives another text the first class
C7_Witness ==
    /\ pcS = "predicted"
    /\ pr_label = ClassNum
    /\ \A j \in 1..(ClassNum - 1) :
          logitsOf[pr_text][j] < logitsOf[pr_text][ClassNum]
    /\ \E t \in Texts : predict(t) = 1

\* the 1-based position of the first largest logit of a text
FirstLargestClass(text) ==
    LET l == logitsOf[text]
    IN  CHOOSE c \in 1..ClassNum :
            /\ \A j \in 1..ClassNum : l[j] <= l[c]
            /\ \A j \in 1..(c - 1) : l[j] < l[c]

\* data holds, in order, one record for each of the first Len(data) rows of
\* df: that row's id and the label of that row's text
RecordsOfPrefix(data, df) ==
    /\ Len(data) <= Len(df)
    /\ \A k \in 1..Len(data) :
          /\ data[k].id = df[k].id
          /\ data[k].label = FirstLargestClass(df[k].text)

\* C10: the prediction loops take the rows one at a time in input order;
\* at every moment the output holds the records of the rows taken so far,
\* and on completion it holds exactly one record per input row, the k-th
\* with the id of the k-th row and the label predicted from its text.
C10_OneRecordPerRowInOrder ==
    /\ RecordsOfPrefix(val_data, valid_df)
    /\ RecordsOfPrefix(test_data, stest_df)
    /\ pcS = "val_loop" => Len(val_data) = loop_i
    /\ pcS = "test_loop" => Len(test_data) = loop_i
    /\ pcS \in {"test_loop", "done"} => Len(val_data) = Len(valid_df)
    /\ pcS = "done" => Len(test_data) = Len(stest_df)

\* both loops have ended over a validation split of two rows with different
\* ids and different labels and a test split of one row
C10_Witness ==
    /\ pcS = "done"
    /\ Len(valid_df) >= 2
    /\ valid_df[1].id # valid_df[2].id
    /\ val_data[1].label # val_data[2].label
    /\ Len(test_data) = 1

(***************************************************************************)
(* C11: once the vocabulary cell has run, no step of the rating pipeline   *)
(* adds, removes or changes an entry of user_vocab or business_vocab: the  *)
(* training, validation and test lookups, a lookup of an unseen ID         *)
(* included, and every later cell leave both dicts as they are.            *)
(***************************************************************************)
VocabsUnchanged ==
    /\ user_vocab' = user_vocab
    /\ business_vocab' = business_vocab

C11_VocabNeverMutated == [][VocabBuilt => VocabsUnchanged]_vars

\* the test lookups have run on an ID unseen in training, and the
\* vocabularies are the ones the vocabulary cell built
C11_Witness ==
    /\ Tested
    /\ \E k \in DOMAIN test_df :
          /\ test_df[k].ReviewerID \notin DOMAIN user_vocab
          /\ test_df[k].ProductID \notin DOMAIN business_vocab
    /\ \E k \in DOMAIN val_df : val_df[k].ReviewerID \notin DOMAIN user_vocab
    /\ user_vocab = MakeVocab(Unique(ReviewerID(tr_df)))
    /\ business_vocab = MakeVocab(Unique(ProductID(tr_df)))

(***************************************************************************)
(* C12: as the claim states it: once the tables are loaded, no step        *)
(* changes the ReviewerID, ProductID or Star of a record of the training,  *)
(* validation or prediction table.                                         *)
(***************************************************************************)
TablesLoaded == pcR # "start"

C12_RecordsImmutable ==
    [][TablesLoaded => tr_df' = tr_df /\ val_df' = val_df]_vars

(***************************************************************************)
(* C12, amended: once the tables are loaded, no step changes a record of   *)
(* the training table, nor the ReviewerID or ProductID of a record of the  *)
(* validation table, nor the number or order of the records; the arrays    *)
(* tr_ratings and val_ratings keep the loaded stars.  The Star of the      *)
(* validation records is changed by the Save Validation prediction cell    *)
(* and by no other: it becomes the model's prediction for the record.  The *)
(* Save Test prediction cell leaves the prediction table with the IDs read *)
(* from the file and the predictions as Star.                              *)
(***************************************************************************)
SameIDs(a, b) ==
    /\ ReviewerID(a) = ReviewerID(b)
    /\ ProductID(a) = ProductID(b)

C12_StepKeepsRecords ==
    /\ TablesLoaded =>
          /\ tr_df' = tr_df
          /\ SameIDs(val_df', val_df)
          /\ val_df' # val_df => pcR = "tested" /\ pcR' = "saved_val"
    /\ pcR = "tested" /\ pcR' = "saved_val" =>
          /\ StarOf(val_df') = ypred'
          /\ ypred' = predict_all(model, val_users, val_items)
    /\ Indexed /\ pcR # "indexed" =>
          /\ tr_ratings' = tr_ratings
          /\ val_ratings' = val_ratings
    /\ pcR = "evaluated" /\ pcR' = "tested" =>
          /\ StarOf(test_df') = ypred'
          /\ ypred' = predict_all(model, test_users', test_items')
    /\ Tested => test_df' = test_df

C12_OnlySaveCellsWriteStar == [][C12_StepKeepsRecords]_vars

\* the Save Validation prediction cell has replaced a loaded star
C12_Witness ==
    /\ pcR = "saved_val"
    /\ val_df # <<>>
    /\ test_df # <<>>
    /\ StarOf(val_df) # val_ratings
    /\ StarOf(tr_df) = tr_ratings

(***************************************************************************)
(* C13: every index a training, validation or test lookup produces is a    *)
(* row of the embedding table, 0..n_users-1 for users and 0..n_items-1 for *)
(* items, and the table has one row more than there are distinct training  *)
(* IDs, a training ID 'unk' included.                                      *)
(***************************************************************************)
InTable(idx, n) == \A k \in DOMAIN idx : idx[k] \in 0..(n - 1)

C13_IndexWithinEmbeddingTable ==
    /\ VocabBuilt =>
          /\ n_users = Cardinality(Range(ReviewerID(tr_df))) + 1
          /\ n_items = Cardinality(Range(ProductID(tr_df))) + 1
    /\ Indexed =>
          /\ InTable(tr_users, n_users) /\ InTable(val_users, n_users)
          /\ InTable(tr_items, n_items) /\ InTable(val_items, n_items)
    /\ Tested => InTable(test_users, n_users) /\ InTable(test_items, n_items)

(***************************************************************************)
(* C14: the sweep ends, having visited every (embed_size, dropout) pair of *)
(* the 4 x 3 grid once, all dropouts of one embed size before the next     *)
(* embed size; i starts at 0, grows by exactly 1 per configuration and     *)
(* ends at 12, so configuration number k writes models/model{k}.h5 and no  *)
(* file is written twice.                                                  *)
(***************************************************************************)
\* the k-th configuration of the grid in row-major order, from 0
ConfigAt(k) ==
    Checkpoint(embed_sizes[(k \div Len(dropouts)) + 1],
               dropouts[(k % Len(dropouts)) + 1])

Grid == {Checkpoint(embed_sizes[e], dropouts[d]) :
            e \in DOMAIN embed_sizes, d \in DOMAIN dropouts}

SweepInv ==
    /\ pcW \in {"sweep", "done"}
    /\ Len(embed_sizes) = 4 /\ Len(dropouts) = 3
    /\ sw_i \in 0..12
    /\ DOMAIN sw_files = 0..(sw_i - 1)
    /\ \A k \in DOMAIN sw_files : sw_files[k] = ConfigAt(k)
    /\ \A j, k \in DOMAIN sw_files : j # k => sw_files[j] # sw_files[k]
    /\ pcW = "sweep" => sw_i = (sw_e - 1) * Len(dropouts) + (sw_d - 1)
    /\ pcW = "done" =>
          /\ sw_i = 12
          /\ {sw_files[k] : k \in DOMAIN sw_files} = Grid

SweepStepInv ==
    /\ sw_i' \in {sw_i, sw_i + 1}
    /\ sw_i' = sw_i => sw_files' = sw_files /\ pcW' = "done"
    /\ sw_i' = sw_i + 1 =>
          /\ sw_i \notin DOMAIN sw_files
          /\ sw_files' = DictSet(sw_files, sw_i, ConfigAt(sw_i))

C14_SweepVisitsGridOnce ==
    /\ pcW = "sweep" /\ sw_i = 0 /\ sw_files = EmptyDict
    /\ []SweepInv
    /\ [][SweepStepInv]_vars
    /\ <>(pcW = "done")

\* the sweep has ended with its twelve checkpoints
C14_Witness ==
    /\ pcW = "done"
    /\ sw_i = 12
    /\ Cardinality(DOMAIN sw_files) = 12
    /\ sw_files[0] = Checkpoint(16, 0)
    /\ sw_files[1] = Checkpoint(16, 15)
    /\ sw_files[3] = Checkpoint(50, 0)
    /\ sw_files[11] = Checkpoint(128, 30)

(***************************************************************************)
(* C15: build_ncf_model returns a model only when output_layer is 'dot' or *)
(* 'mlp'; for every other output_layer it raises NotImplementedError and   *)
(* returns no model.                                                       *)
(***************************************************************************)
C15_ModelOnlyForDotOrMlp ==
    pcB = "done" =>
       /\ ~b_result.raised =>
             /\ b_args.output_layer \in {"dot", "mlp"}
             /\ b_result.model.built
             /\ b_result.model.output_layer = b_args.output_layer
       /\ b_args.output_layer \notin {"dot", "mlp"} =>
             b_result = RaisedError("NotImplementedError")
       /\ b_result.raised => b_result.model = NoModel

\* a call with an output_layer that is neither has raised
C15_Witness ==
    /\ pcB = "done"
    /\ b_args.output_layer = "combine"
    /\ b_result.raised
    /\ b_result.error = "NotImplementedError"

====
